---- MODULE Spec2Model ----
(***************************************************************************)
(* Model of the metfish orchestration endpoint (Flask main.py):            *)
(* /run-metfish (run_metfish), /get-results (get_results) and the storage  *)
(* helpers, with the three buckets, the local staging file system, the     *)
(* clock and a fixed population of HTTP submissions handled by        *)
(* concurrent worker threads.  Each action is the code between two         *)
(* blocking calls of one request.                                          *)
(***************************************************************************)
EXTENDS Integers, Sequences, FiniteSets, TLC

VARIABLES now, pc, req, job_id, idAssigned, tmpdir, dirs, fs,
          ckptBucket, inputBucket, resultsBucket,
          pending, uploaded_files, produced, result, runnerCalls,
          writes, outcome, responses,
          cmd, captured, listings, lastQuery,
          apiUrl, uploadedFiles, selectedCheckpoint, availableCheckpoints,
          loadingCheckpoints, mounted, formParams, isRunning, progress, results,
          error, nsubs, timers, awaiting, sent, response, parsing

vars == <<now, pc, req, job_id, idAssigned, tmpdir, dirs, fs,
          ckptBucket, inputBucket, resultsBucket,
          pending, uploaded_files, produced, result, runnerCalls,
          writes, outcome, responses,
          cmd, captured, listings, lastQuery,
          apiUrl, uploadedFiles, selectedCheckpoint, availableCheckpoints,
          loadingCheckpoints, mounted, formParams, isRunning, progress, results,
          error, nsubs, timers, awaiting, sent, response, parsing>>

\* the state of the service and of its storage
serverVars == <<now, pc, req, job_id, idAssigned, tmpdir, dirs, fs,
                ckptBucket, inputBucket, resultsBucket,
                pending, uploaded_files, produced, result, runnerCalls,
                writes, outcome, responses,
                cmd, captured, listings, lastQuery>>

\* the state of the page MetfishDeploymentPage
clientVars == <<apiUrl, uploadedFiles, selectedCheckpoint, availableCheckpoints,
                loadingCheckpoints, mounted, formParams, isRunning, progress,
                results, error, nsubs, timers, awaiting, sent, response,
                parsing>>

(* ---------------------------- bounds ----------------------------------- *)
NumReqs == 2
MaxTime == 1
\* calls of /list-checkpoints recorded
MaxListings == 2
\* captured streams are up to this much longer than the tail kept
MaxOver == 1
\* validated submissions made from the page
MaxSubs == 2

Reqs == 1..NumReqs
Times == 0..MaxTime

(* ------------------------- program constants --------------------------- *)
INPUT_BUCKET == "metfish-input"
CHECKPOINT_BUCKET == "metfishi-checkpoints"
RESULTS_BUCKET == "metfish-results"

(* ------------------------- input domains ------------------------------- *)
None == "None"
\* a form field the client did not send
Absent == "<absent>"
\* the multipart form: two file parts and the scalar fields
FullForm(data, csv, ckpt, seq, iters, lr, freq, rinit, ext) ==
    [data_dir |-> data, test_csv_file |-> csv,
     checkpoint_file |-> ckpt, sequence_index |-> seq,
     num_iterations |-> iters, learning_rate |-> lr,
     save_frequency |-> freq, random_init |-> rinit, saxs_ext |-> ext]
\* a form that sends the checkpoint name and the sequence index only
FormReq(data, csv, ckpt, seq) ==
    FullForm(data, csv, ckpt, seq, Absent, Absent, Absent, Absent, Absent)
\* the multipart requests submitted: an uploaded file part is absent (None),
\* a readable zip / csv, or a corrupt archive
Submissions ==
    {FormReq("zip", "csv", "model_v1.ckpt", "1"),
     FormReq("zip", "csv", "model_v1.ckpt", "10"),
     FormReq(None, "csv", "model_v1.ckpt", "1"),
     FormReq("zip", None, "model_v1.ckpt", "1"),
     FormReq("badzip", "csv", "model_v1.ckpt", "1"),
     FormReq("zip", "csv", "missing.ckpt", "1")}
\* files the executable may leave under --output_dir (relative paths)
OutFiles == {"out.pdb", "ckpt/step_25.pt"}
\* what a run leaves behind: on exit 0 nothing, the top-level file, or all
\* files; a run that fails or is killed leaves its partial output tree
OutputsOf(kind) ==
    IF kind = "exit0" THEN {{}, {"out.pdb"}, OutFiles} ELSE {OutFiles}
ExitKinds == {"exit0", "exit1", "timeout"}
\* objects present in the checkpoint bucket
InitialCheckpoints == {"model_v1.ckpt", "README.txt"}

\* forms that set every scalar field, with each spelling of random_init,
\* and one that sends no scalar field at all
SingleForms ==
    {FormReq("zip", "csv", "model_v1.ckpt", "1"),
     FullForm("zip", "csv", "model_v1.ckpt", "3", "1", "5e-4", "10", "true", "_saxs.csv"),
     FullForm("zip", "csv", "model_v1.ckpt", "3", "1", "5e-4", "10", "false", "_saxs.csv"),
     FullForm("zip", "csv", "model_v1.ckpt", "3", "1", "5e-4", "10", "True", "_saxs.csv"),
     FullForm("zip", "csv", Absent, Absent, Absent, Absent, Absent, Absent, Absent)}
\* contents the checkpoint bucket may have
CheckpointBuckets ==
    {InitialCheckpoints,
     {"README.txt", "old.ckpt.bak"},
     {"model_v1.ckpt", "default.ckpt", "old.ckpt.bak", "ckpt"}}
\* job ids asked of /get-results
QueryIds == {"job_0_1", "job_0_3", "job_9_9"}
\* the number of characters of a stream that a response keeps
TailLimit == 1000
Digits == "0123456789"
RECURSIVE Rep(_)
Rep(k) == IF k = 0 THEN "" ELSE Rep(k - 1) \o Digits
\* a captured stream of n characters
Text(n) == Rep(n \div 10) \o SubSeq(Digits, 1, n % 10)
StreamLens == {0, 1, TailLimit - 1} \cup (TailLimit..(TailLimit + MaxOver))
Streams == {Text(n) : n \in StreamLens}

NoReq == FormReq(None, None, "", "")

\* request.form.get(key, default)
FormGet(form, key, default) == IF form[key] = Absent THEN default ELSE form[key]

\* variant: any value but 'false' switches the flag on
RandomInitUnlessFalse(form) == FormGet(form, "random_init", "true") # "false"

\* params['random_init']
RandomInit(form) == FormGet(form, "random_init", "true") = "true"

\* params[...] and checkpoint_name
Params(form) ==
    [num_iterations |-> FormGet(form, "num_iterations", "500"),
     learning_rate |-> FormGet(form, "learning_rate", "1e-3"),
     sequence_index |-> FormGet(form, "sequence_index", "0"),
     save_frequency |-> FormGet(form, "save_frequency", "25"),
     random_init |-> RandomInit(form),
     saxs_ext |-> FormGet(form, "saxs_ext", "_atom_only.csv")]
CheckpointName(form) == FormGet(form, "checkpoint_file", "default.ckpt")

\* nothing captured yet from the child
NoStreams == [stdout |-> "", stderr |-> ""]
\* no /get-results call answered yet
NoQuery == [job_id |-> "", storage_ok |-> TRUE, response |-> [status |-> "none"]]

(* --------------------------- string helpers ---------------------------- *)
StartsWith(s, p) == Len(p) <= Len(s) /\ SubSeq(s, 1, Len(p)) = p

\* os.path.join(a, b) for a relative b
PathJoin(a, b) == a \o "/" \o b

\* os.path.relpath(path, start) for a path below start
RelPath(path, start) == SubSeq(path, Len(start) + 2, Len(path))

\* variant: the head of the stream is kept instead of its tail
First1000(s) == IF Len(s) > 1000 THEN SubSeq(s, 1, 1000) ELSE s

\* s[-1000:]
Last1000(s) == IF Len(s) > 1000 THEN SubSeq(s, Len(s) - 999, Len(s)) ELSE s

\* a relative path that lies in a sub-directory
IsNested(rel) == \E i \in 1..Len(rel) : SubSeq(rel, i, i) = "/"

(* ------------------------- storage helpers ----------------------------- *)
\* f"job_{int(time.time())}_{params['sequence_index']}"
JobId(t, seq) == "job_" \o ToString(t) \o "_" \o seq

\* upload_to_bucket's return value
GcsPath(bucket_name, blob_name) == "gs://" \o bucket_name \o "/" \o blob_name

\* variant: the job id is joined to the path without a directory separator
BlobNameNoSlash(job, rel_path) == job \o "_" \o rel_path

\* blob name of a result file
BlobName(job, rel_path) == job \o "/" \o rel_path

\* variant: the manifest is stored under a fixed name, outside the job prefix
InputBlobNameShared(job) == "test.csv"

\* blob name of the manifest record
InputBlobName(job) == job \o "/test.csv"

\* variant: a download of an absent object is not reported
BlobExistsAlways(bucket, blob_name) == TRUE

\* blob.download_to_filename finds the object
BlobExists(bucket, blob_name) == blob_name \in bucket

\* bucket.list_blobs(prefix=...)
ListBlobs(bucket, prefix) == {n \in bucket : StartsWith(n, prefix)}

\* body of get_results: the locations listed for job
get_results(job) ==
    {GcsPath(RESULTS_BUCKET, n) : n \in ListBlobs(resultsBucket, job)}

\* variant: the response to /get-results is an error when nothing is listed
GetResultsResponseNotFound(job, ok) ==
    IF ok /\ get_results(job) # {}
    THEN [status |-> "success", job_id |-> job, results |-> get_results(job),
          code |-> 200]
    ELSE [status |-> "error", message |-> "404 Not Found", code |-> 500]

\* the response of get_results; ok: the storage call did not raise
GetResultsResponse(job, ok) ==
    IF ok
    THEN [status |-> "success", job_id |-> job, results |-> get_results(job),
          code |-> 200]
    ELSE [status |-> "error", message |-> "503 Service Unavailable", code |-> 500]

\* variant: '.ckpt' in blob.name
EndsWithAnywhere(s, suffix) ==
    \E i \in 1..(Len(s) - Len(suffix) + 1) :
        SubSeq(s, i, i + Len(suffix) - 1) = suffix

\* str.endswith
EndsWith(s, suffix) ==
    /\ Len(suffix) <= Len(s)
    /\ SubSeq(s, Len(s) - Len(suffix) + 1, Len(s)) = suffix

\* the response of list_checkpoints; ok: the storage call did not raise
ListCheckpointsResponse(bucket, ok) ==
    IF ok
    THEN [status |-> "success",
          checkpoints |-> {n \in bucket : EndsWith(n, ".ckpt")}, code |-> 200]
    ELSE [status |-> "error", message |-> "503 Service Unavailable", code |-> 500]

(* ------------------------- staging helpers ----------------------------- *)
\* tempfile.TemporaryDirectory(): a directory name not in use
mkdtemp(r) == "/tmp/tmp" \o ToString(r)

FilesUnder(files, d) == {p \in files : StartsWith(p, d \o "/")}

\* variant: only the two saved uploads are removed
CleanupUploadsOnly(files, d) ==
    files \ {PathJoin(d, "data.zip"), PathJoin(d, "test.csv")}

\* variant: the whole staging root is emptied
CleanupAll(files, d) == {}

\* TemporaryDirectory.__exit__: remove the tree
Cleanup(files, d) == files \ FilesUnder(files, d)

data_zip(r) == PathJoin(tmpdir[r], "data.zip")
csv_path(r) == PathJoin(tmpdir[r], "test.csv")
checkpoint_path(r) == PathJoin(tmpdir[r], "checkpoint.ckpt")
output_path(r) == PathJoin(tmpdir[r], "output")
data_extract_path(r) == PathJoin(tmpdir[r], "data")

\* variant: a missing part is skipped instead of failing
CanSaveAlways(file) == TRUE

\* FileStorage.save on request.files.get(...): None has no save
CanSave(file) == file # None

\* variant: a corrupt archive is extracted as far as it goes
ZipReadableAlways(file) == TRUE

\* zipfile.ZipFile(...).extractall succeeds
ZipReadable(file) == file = "zip"

\* variant: publication is not gated on the exit code
ShouldPublishAlways(returncode) == TRUE

\* the gate on publication
ShouldPublish(returncode) == returncode = 0

\* variant: the handler catches AttributeError only
CaughtAttributeErrorOnly(exc) == exc = "'NoneType' object has no attribute 'save'"

\* except Exception: every exception raised in the handler is caught
Caught(exc) == TRUE

(* --------------------------- command line ------------------------------ *)
Home == "/home/metfish"
\* os.path.expanduser for a path that begins with "~"
ExpandUser(path) == Home \o SubSeq(path, 2, Len(path))

\* cmd, with data_path already replaced by the extraction directory
BuildCmd(r) ==
    LET params == Params(req[r])
        base == <<"python3",
                  ExpandUser("~/metfish/src/metfish/refinement_model/train_structure.py"),
                  "--data_dir", data_extract_path(r),
                  "--output_dir", output_path(r),
                  "--ckpt_path", checkpoint_path(r),
                  "--test_csv_name", csv_path(r),
                  "--saxs_ext", params.saxs_ext,
                  "--num_iterations", params.num_iterations,
                  "--learning_rate", params.learning_rate,
                  "--sequence_index", params.sequence_index,
                  "--save_frequency", params.save_frequency>>
    IN  IF params.random_init THEN Append(base, "--random_init") ELSE base

(* ---------------------------- responses -------------------------------- *)
SuccessResponse(job, files, stdout) ==
    [status |-> "success", message |-> "Computation completed successfully",
     job_id |-> job, results |-> files, output |-> Last1000(stdout),
     code |-> 200]

\* variant: the captured stderr is dropped from the response
FailedResponseNoTail(stderr) ==
    [status |-> "error", message |-> "Computation failed",
     error |-> "", code |-> 500]

FailedResponse(stderr) ==
    [status |-> "error", message |-> "Computation failed",
     error |-> Last1000(stderr), code |-> 500]

\* variant: a timeout is answered like a failed run
TimeoutResponseGeneric ==
    [status |-> "error", message |-> "Computation failed", code |-> 500]

TimeoutResponse ==
    [status |-> "error", message |-> "Computation timed out after 2 hours",
     code |-> 500]

ExceptionResponse(exc) ==
    [status |-> "error", message |-> exc, traceback |-> "Traceback",
     code |-> 500]

(* ------------------------------ Init ----------------------------------- *)
(* ------------------------- the page (index.tsx) ------------------------ *)
\* JavaScript null and undefined
Null == "<null>"
Undefined == "<undefined>"
\* import.meta.env.VITE_GCP_API_URL when it is configured
GcpApiUrl == "https://metfish-api.example"
ApiUrls == {Null, GcpApiUrl}
\* the ids of the interval timers and of the submissions that own them
SubIds == 1..MaxSubs
\* the files the user can pick for each input
FileChoices ==
    [dataDir |-> {<<>>, <<"data.zip">>}, testCsvFile |-> {<<>>, <<"test.csv">>}]
\* the edits of the parameter fields
ParamEdits == {<<"sequenceIndex", "10">>, <<"randomInit", FALSE>>}
\* useState defaults
NoFiles == [dataDir |-> Null, testCsvFile |-> Null]
DefaultParams ==
    [numIterations |-> "500", learningRate |-> "1e-3", sequenceIndex |-> "0",
     saveFrequency |-> "25", randomInit |-> TRUE, saxsExt |-> "_atom_only.csv"]

\* a settled fetch: rejected (network failure), or resolved with response.ok
\* and a body that response.json() parses or not
Reply(settled, ok, parses, body) ==
    [settled |-> settled, ok |-> ok, parses |-> parses, body |-> body]
\* the parsed body of /list-checkpoints (no key but checkpoints; a missing
\* checkpoints key reads as the empty list, data.checkpoints || [])
ListBody(checkpoints) ==
    [job_id |-> Undefined, message |-> Undefined, checkpoints |-> checkpoints]
CheckpointReplies ==
    {Reply("resolved", TRUE, TRUE, ListBody(<<"model_v1.ckpt", "default.ckpt">>)),
     Reply("resolved", TRUE, TRUE, ListBody(<<>>)),
     Reply("resolved", TRUE, FALSE, ListBody(<<>>)),
     Reply("resolved", FALSE, TRUE, ListBody(<<>>)),
     Reply("rejected", FALSE, FALSE, ListBody(<<>>))}
\* the parsed body of /run-metfish
RunBody(job, message) ==
    [job_id |-> job, message |-> message, checkpoints |-> <<>>]
\* the id under which the pending response.json() of fetchCheckpoints is kept
ListFetch == 0
RunReplies ==
    {Reply("resolved", TRUE, TRUE, RunBody("job_0_1", "Computation completed successfully")),
     Reply("resolved", TRUE, TRUE, RunBody(Undefined, "accepted")),
     Reply("resolved", TRUE, TRUE, RunBody(Undefined, Undefined)),
     Reply("resolved", TRUE, FALSE, RunBody(Undefined, Undefined)),
     Reply("resolved", FALSE, TRUE, RunBody(Undefined, "Computation failed")),
     Reply("rejected", FALSE, FALSE, RunBody(Undefined, Undefined))}

\* no fetch of /run-metfish has settled for the current submission
NoReply == Reply("none", FALSE, FALSE, RunBody(Undefined, Undefined))

\* a JavaScript value used as a condition
Truthy(v) == v \notin {Null, Undefined, ""}
\* the replies to /run-metfish the service itself gives: 200 with a job id,
\* 500 with a message
ServiceReplies ==
    {reply \in RunReplies :
        /\ reply.settled = "resolved" /\ reply.parses
        /\ (Truthy(reply.body.job_id) \/ ~reply.ok)}

\* Boolean.prototype.toString
BoolToString(b) == IF b THEN "true" ELSE "false"

\* the FormData posted to /run-metfish
FormData(files, checkpoint, p) ==
    FullForm(files.dataDir, files.testCsvFile, checkpoint, p.sequenceIndex,
             p.numIterations, p.learningRate, p.saveFrequency,
             BoolToString(p.randomInit), p.saxsExt)

\* variant: only the data archive is required
ValidationErrorDataOnly(files, checkpoint, available) ==
    IF ~Truthy(files.dataDir)
    THEN "Please upload all required files before running computation."
    ELSE Null

\* the two guards at the head of handleRunComputation: the message they set,
\* Null when the submission is valid
ValidationError(files, checkpoint, available) ==
    IF ~Truthy(files.dataDir) \/ ~Truthy(files.testCsvFile)
    THEN "Please upload all required files before running computation."
    ELSE IF ~Truthy(checkpoint) /\ Len(available) > 0
         THEN "Please select a checkpoint."
         ELSE Null

allFilesUploaded ==
    /\ Truthy(uploadedFiles.dataDir)
    /\ Truthy(uploadedFiles.testCsvFile)
    /\ (Truthy(selectedCheckpoint) \/ Len(availableCheckpoints) = 0)

\* variant: the button stays enabled while a computation is running
RunDisabledFilesOnly == ~allFilesUploaded

\* the disabled attribute of the Run Computation button
RunDisabled == ~allFilesUploaded \/ isRunning

\* variant: the earlier results stay on the page
SubmissionResetKeepsResults ==
    [error |-> Null, results |-> results, isRunning |-> TRUE, progress |-> 0]

\* variant: the earlier error stays on the page
SubmissionResetKeepsError ==
    [error |-> error, results |-> Null, isRunning |-> TRUE, progress |-> 0]

\* setError(null); setResults(null); setIsRunning(true); setProgress(0)
SubmissionReset ==
    [error |-> Null, results |-> Null, isRunning |-> TRUE, progress |-> 0]

\* variant: the interval counts up to 100
TickProgressToTheEnd(prev) == IF prev >= 100 THEN prev ELSE prev + 10

\* the updater passed to setProgress by the interval callback
TickProgress(prev) == IF prev >= 90 THEN prev ELSE prev + 10

\* variant: the response is not checked
ResponseOkAlways(reply) == TRUE

\* response.ok
ResponseOk(reply) == reply.ok

\* resultMessage
ResultMessage(data) ==
    IF Truthy(data.job_id)
    THEN "Computation completed successfully! Job ID: " \o data.job_id
         \o "\nResults saved to: gs://metfish-results/" \o data.job_id \o "/"
    ELSE IF Truthy(data.message) THEN data.message
         ELSE "Computation completed successfully!"

SimulatedMessage ==
    "Computation completed successfully! Results will be available in gs://metfish-results/"

\* err.message of what the try block throws for a reply
ThrownMessage(reply) ==
    IF reply.settled = "rejected" THEN "Failed to fetch"
    ELSE IF ~ResponseOk(reply) THEN "API request failed"
         ELSE "Unexpected end of JSON input"

\* the reply makes the try block throw when await fetch returns
Throws(reply) ==
    reply.settled = "rejected" \/ ~ResponseOk(reply)

\* the reply makes await response.json() throw
JsonThrows(reply) == ~reply.parses

\* the ids whose response.json() is pending
ParsingIds == {pair[1] : pair \in parsing}

FailureMessage(reply) == "Failed to run computation: " \o ThrownMessage(reply)

\* the page after construction, for a configured or missing API URL
InitForm(url) ==
    /\ apiUrl = url
    /\ uploadedFiles = NoFiles
    /\ selectedCheckpoint = ""
    /\ availableCheckpoints = <<>>
    /\ loadingCheckpoints = FALSE
    /\ mounted = "rendered"
    /\ formParams = DefaultParams
    /\ isRunning = FALSE
    /\ progress = 0
    /\ results = Null
    /\ error = Null
    /\ nsubs = 0
    /\ timers = {}
    /\ awaiting = {}
    /\ sent = {}
    /\ response = NoReply
    /\ parsing = {}

\* everything but the contents of the checkpoint bucket
InitHandlers ==
    /\ now = 0
    /\ pc = [r \in Reqs |-> "idle"]
    /\ req = [r \in Reqs |-> NoReq]
    /\ job_id = [r \in Reqs |-> ""]
    /\ idAssigned = [r \in Reqs |-> 0]
    /\ tmpdir = [r \in Reqs |-> ""]
    /\ dirs = {}
    /\ fs = {}
    /\ inputBucket = {}
    /\ resultsBucket = {}
    /\ pending = [r \in Reqs |-> {}]
    /\ uploaded_files = [r \in Reqs |-> <<>>]
    /\ produced = [r \in Reqs |-> {}]
    /\ result = [r \in Reqs |-> "none"]
    /\ runnerCalls = [r \in Reqs |-> 0]
    /\ writes = [r \in Reqs |-> <<>>]
    /\ outcome = [r \in Reqs |-> "none"]
    /\ responses = [r \in Reqs |-> <<>>]
    /\ cmd = [r \in Reqs |-> <<>>]
    /\ captured = [r \in Reqs |-> NoStreams]
    /\ listings = <<>>
    /\ lastQuery = NoQuery

Init ==
    /\ ckptBucket = InitialCheckpoints
    /\ InitHandlers
    /\ InitForm(GcpApiUrl)

\* one submission, any of the checkpoint buckets
InitSingle ==
    /\ ckptBucket \in CheckpointBuckets
    /\ InitHandlers
    /\ InitForm(GcpApiUrl)

\* the page alone, with the API URL configured or not
InitClient ==
    /\ ckptBucket = InitialCheckpoints
    /\ InitHandlers
    /\ \E url \in ApiUrls : InitForm(url)

(* ----------------------------- actions --------------------------------- *)
\* int(time.time()) moves on to the next second.  The clock is read only
\* when a request arrives, so a second is modelled only if the one before
\* it saw an arrival and a request is still to come.
Tick ==
    /\ now < MaxTime
    /\ \E r \in Reqs : pc[r] = "idle"
    /\ \E r \in Reqs : pc[r] # "idle" /\ job_id[r] = JobId(now, Params(req[r]).sequence_index)
    /\ now' = now + 1
    /\ UNCHANGED <<pc, req, job_id, idAssigned, tmpdir, dirs, fs,
                   ckptBucket, inputBucket, resultsBucket, pending,
                   uploaded_files, produced, result, runnerCalls, writes,
                   outcome, responses>>
    /\ UNCHANGED <<cmd, captured, listings, lastQuery>>
    /\ UNCHANGED clientVars

\* leaving the handler: the with-block removes the staging tree, the
\* handler returns one JSON response (or the exception escapes)
Leave(r, resp, out) ==
    /\ fs' = Cleanup(fs, tmpdir[r])
    /\ dirs' = dirs \ {tmpdir[r]}
    /\ responses' = [responses EXCEPT ![r] = Append(@, resp)]
    /\ outcome' = [outcome EXCEPT ![r] = out]
    /\ pc' = [pc EXCEPT ![r] = "done"]

\* an exception raised inside the with-block
Raise(r, exc) ==
    /\ fs' = Cleanup(fs, tmpdir[r])
    /\ dirs' = dirs \ {tmpdir[r]}
    /\ IF Caught(exc)
       THEN /\ responses' = [responses EXCEPT ![r] = Append(@, ExceptionResponse(exc))]
            /\ outcome' = [outcome EXCEPT ![r] = "error"]
            /\ pc' = [pc EXCEPT ![r] = "done"]
       ELSE /\ responses' = responses
            /\ outcome' = [outcome EXCEPT ![r] = "fault"]
            /\ pc' = [pc EXCEPT ![r] = "fault"]

\* request parsing, job id, TemporaryDirectory()
\* (requests are numbered in their order of arrival)
Submit(r, form) ==
    /\ pc[r] = "idle"
    /\ IF r = 1 THEN TRUE ELSE pc[r - 1] # "idle"
    /\ mkdtemp(r) \notin dirs
    /\ req' = [req EXCEPT ![r] = form]
    /\ job_id' = [job_id EXCEPT ![r] = JobId(now, Params(form).sequence_index)]
    /\ idAssigned' = [idAssigned EXCEPT ![r] = @ + 1]
    /\ tmpdir' = [tmpdir EXCEPT ![r] = mkdtemp(r)]
    /\ dirs' = dirs \cup {mkdtemp(r)}
    /\ pc' = [pc EXCEPT ![r] = "received"]
    /\ UNCHANGED <<now, fs, ckptBucket, inputBucket, resultsBucket,
                   pending, uploaded_files, produced, result, runnerCalls, writes,
                   outcome, responses>>
    /\ UNCHANGED <<cmd, captured, listings, lastQuery>>
    /\ UNCHANGED clientVars

\* variant: the manifest is recorded in the input bucket as soon as it is saved
StageFilesRecording(r) ==
    /\ pc[r] = "received"
    /\ IF CanSave(req[r].data_dir) /\ CanSave(req[r].test_csv_file)
       THEN /\ fs' = fs \cup {data_zip(r), csv_path(r)}
            /\ inputBucket' = inputBucket \cup {InputBlobName(job_id[r])}
            /\ writes' = [writes EXCEPT ![r] =
                 Append(@, [bucket |-> INPUT_BUCKET, name |-> InputBlobName(job_id[r])])]
            /\ pc' = [pc EXCEPT ![r] = "staged"]
            /\ UNCHANGED <<dirs, outcome, responses>>
       ELSE /\ Raise(r, "'NoneType' object has no attribute 'save'")
            /\ UNCHANGED <<inputBucket, writes>>
    /\ UNCHANGED <<now, req, job_id, idAssigned, tmpdir, ckptBucket,
                   resultsBucket, pending, uploaded_files,
                   produced, result, runnerCalls>>
    /\ UNCHANGED <<cmd, captured, listings, lastQuery>>
    /\ UNCHANGED clientVars

\* data_file.save(data_path); csv_file.save(csv_path)
StageFiles(r) ==
    /\ pc[r] = "received"
    /\ IF CanSave(req[r].data_dir) /\ CanSave(req[r].test_csv_file)
       THEN /\ fs' = fs \cup {data_zip(r), csv_path(r)}
            /\ pc' = [pc EXCEPT ![r] = "staged"]
            /\ UNCHANGED <<dirs, outcome, responses>>
       ELSE Raise(r, "'NoneType' object has no attribute 'save'")
    /\ UNCHANGED <<now, req, job_id, idAssigned, tmpdir, ckptBucket,
                   inputBucket, resultsBucket, pending, uploaded_files,
                   produced, result, runnerCalls, writes>>
    /\ UNCHANGED <<cmd, captured, listings, lastQuery>>
    /\ UNCHANGED clientVars

\* download_from_bucket(CHECKPOINT_BUCKET, checkpoint_name, checkpoint_path)
ResolveCheckpoint(r) ==
    /\ pc[r] = "staged"
    /\ IF ~BlobExists(ckptBucket, CheckpointName(req[r]))
       THEN Raise(r, "404 No such object")
       ELSE /\ fs' = fs \cup {checkpoint_path(r)}
            /\ pc' = [pc EXCEPT ![r] = "checkpoint_resolved"]
            /\ UNCHANGED <<dirs, outcome, responses>>
    /\ UNCHANGED <<now, req, job_id, idAssigned, tmpdir, ckptBucket,
                   inputBucket, resultsBucket, pending, uploaded_files,
                   produced, result, runnerCalls, writes>>
    /\ UNCHANGED <<cmd, captured, listings, lastQuery>>
    /\ UNCHANGED clientVars

\* zipfile.ZipFile(data_path).extractall(data_extract_path); makedirs(output)
Extract(r) ==
    /\ pc[r] = "checkpoint_resolved"
    /\ IF ZipReadable(req[r].data_dir)
       THEN /\ fs' = fs \cup {PathJoin(data_extract_path(r), "input.pdb")}
            /\ pc' = [pc EXCEPT ![r] = "extracted"]
            /\ UNCHANGED <<dirs, outcome, responses>>
       ELSE Raise(r, "File is not a zip file")
    /\ UNCHANGED <<now, req, job_id, idAssigned, tmpdir, ckptBucket,
                   inputBucket, resultsBucket, pending, uploaded_files,
                   produced, result, runnerCalls, writes>>
    /\ UNCHANGED <<cmd, captured, listings, lastQuery>>
    /\ UNCHANGED clientVars

\* variant: the manifest is not recorded before the run
UploadInputSkipped(r, ok) ==
    /\ pc[r] = "extracted"
    /\ IF ok
       THEN /\ pc' = [pc EXCEPT ![r] = "ready"]
            /\ UNCHANGED <<dirs, fs, outcome, responses>>
       ELSE Raise(r, "503 Service Unavailable")
    /\ UNCHANGED <<now, req, job_id, idAssigned, tmpdir, ckptBucket,
                   inputBucket, writes, resultsBucket, pending,
                   uploaded_files, produced, result, runnerCalls>>
    /\ UNCHANGED <<cmd, captured, listings, lastQuery>>
    /\ UNCHANGED clientVars

\* upload_to_bucket(INPUT_BUCKET, csv_path, f"{job_id}/test.csv")
UploadInput(r, ok) ==
    /\ pc[r] = "extracted"
    /\ IF ok
       THEN /\ inputBucket' = inputBucket \cup {InputBlobName(job_id[r])}
            /\ writes' = [writes EXCEPT ![r] =
                 Append(@, [bucket |-> INPUT_BUCKET, name |-> InputBlobName(job_id[r])])]
            /\ pc' = [pc EXCEPT ![r] = "ready"]
            /\ UNCHANGED <<dirs, fs, outcome, responses>>
       ELSE /\ Raise(r, "503 Service Unavailable")
            /\ UNCHANGED <<inputBucket, writes>>
    /\ UNCHANGED <<now, req, job_id, idAssigned, tmpdir, ckptBucket,
                   resultsBucket, pending, uploaded_files, produced, result,
                   runnerCalls>>
    /\ UNCHANGED <<cmd, captured, listings, lastQuery>>
    /\ UNCHANGED clientVars

\* variant: the executable is launched as soon as the uploads are saved
StartRunnerEarly(r, launched) ==
    /\ pc[r] \in {"staged", "ready"}
    /\ runnerCalls' = [runnerCalls EXCEPT ![r] = @ + 1]
    /\ cmd' = [cmd EXCEPT ![r] = BuildCmd(r)]
    /\ IF launched
       THEN /\ pc' = [pc EXCEPT ![r] = "running"]
            /\ UNCHANGED <<dirs, fs, outcome, responses>>
       ELSE Raise(r, "[Errno 2] No such file or directory: 'python3'")
    /\ UNCHANGED <<now, req, job_id, idAssigned, tmpdir, ckptBucket,
                   inputBucket, resultsBucket, pending, uploaded_files,
                   produced, result, writes>>
    /\ UNCHANGED <<captured, listings, lastQuery>>
    /\ UNCHANGED clientVars

\* subprocess.run(cmd, ...) is called and the child is launched
StartRunner(r, launched) ==
    /\ pc[r] = "ready"
    /\ runnerCalls' = [runnerCalls EXCEPT ![r] = @ + 1]
    /\ cmd' = [cmd EXCEPT ![r] = BuildCmd(r)]
    /\ IF launched
       THEN /\ pc' = [pc EXCEPT ![r] = "running"]
            /\ UNCHANGED <<dirs, fs, outcome, responses>>
       ELSE Raise(r, "[Errno 2] No such file or directory: 'python3'")
    /\ UNCHANGED <<now, req, job_id, idAssigned, tmpdir, ckptBucket,
                   inputBucket, resultsBucket, pending, uploaded_files,
                   produced, result, writes>>
    /\ UNCHANGED <<captured, listings, lastQuery>>
    /\ UNCHANGED clientVars

\* variant: a run that exits non-zero is started again
RunnerExitRetry(r, kind, outs, stdout, stderr) ==
    /\ pc[r] = "running"
    /\ result' = [result EXCEPT ![r] = kind]
    /\ produced' = [produced EXCEPT ![r] = outs]
    /\ captured' = [captured EXCEPT ![r] = [stdout |-> stdout, stderr |-> stderr]]
    /\ LET written == fs \cup {PathJoin(output_path(r), f) : f \in outs}
       IN  IF kind = "timeout"
           THEN /\ Leave(r, TimeoutResponse, "timed_out")
                /\ UNCHANGED pending
           ELSE IF kind = "exit0"
           THEN /\ fs' = written
                /\ pending' = [pending EXCEPT ![r] = FilesUnder(written, output_path(r))]
                /\ pc' = [pc EXCEPT ![r] = "publishing"]
                /\ UNCHANGED <<dirs, outcome, responses>>
           ELSE /\ fs' = written
                /\ pc' = [pc EXCEPT ![r] = "ready"]
                /\ UNCHANGED <<dirs, outcome, responses, pending>>
    /\ UNCHANGED <<now, req, job_id, idAssigned, tmpdir, ckptBucket,
                   inputBucket, resultsBucket, uploaded_files, runnerCalls,
                   writes>>
    /\ UNCHANGED <<cmd, listings, lastQuery>>
    /\ UNCHANGED clientVars

\* subprocess.run returns or raises TimeoutExpired; the executable has
\* written outs under --output_dir by then, whatever the outcome
RunnerExit(r, kind, outs, stdout, stderr) ==
    /\ pc[r] = "running"
    /\ result' = [result EXCEPT ![r] = kind]
    /\ produced' = [produced EXCEPT ![r] = outs]
    /\ captured' = [captured EXCEPT ![r] = [stdout |-> stdout, stderr |-> stderr]]
    /\ LET written == fs \cup {PathJoin(output_path(r), f) : f \in outs}
           returncode == IF kind = "exit0" THEN 0 ELSE 1
       IN  IF kind = "timeout"
           THEN /\ Leave(r, TimeoutResponse, "timed_out")
                /\ UNCHANGED pending
           ELSE IF ShouldPublish(returncode)
           THEN /\ fs' = written
                \* os.walk(output_path)
                /\ pending' = [pending EXCEPT ![r] = FilesUnder(written, output_path(r))]
                /\ pc' = [pc EXCEPT ![r] = "publishing"]
                /\ UNCHANGED <<dirs, outcome, responses>>
           ELSE /\ Leave(r, FailedResponse(stderr), "failed")
                /\ UNCHANGED pending
    /\ UNCHANGED <<now, req, job_id, idAssigned, tmpdir, ckptBucket,
                   inputBucket, resultsBucket, uploaded_files, runnerCalls,
                   writes>>
    /\ UNCHANGED <<cmd, listings, lastQuery>>
    /\ UNCHANGED clientVars

\* os.walk is top-down: the files of the output directory itself come
\* before those of its sub-directories
WalkNext(r, local_path) ==
    /\ local_path \in pending[r]
    /\ IsNested(RelPath(local_path, output_path(r))) =>
          \A q \in pending[r] : IsNested(RelPath(q, output_path(r)))

\* one iteration of the result upload loop
UploadResult(r, ok) ==
    /\ pc[r] = "publishing"
    /\ \E local_path \in pending[r] :
         /\ WalkNext(r, local_path)
         /\ LET rel_path == RelPath(local_path, output_path(r))
                blob_name == BlobName(job_id[r], rel_path)
            IN  IF ok
                THEN /\ resultsBucket' = resultsBucket \cup {blob_name}
                     /\ writes' = [writes EXCEPT ![r] =
                          Append(@, [bucket |-> RESULTS_BUCKET, name |-> blob_name])]
                     /\ uploaded_files' = [uploaded_files EXCEPT ![r] =
                          Append(@, GcsPath(RESULTS_BUCKET, blob_name))]
                     /\ pending' = [pending EXCEPT ![r] = @ \ {local_path}]
                     /\ UNCHANGED <<dirs, fs, outcome, responses, pc>>
                ELSE /\ Raise(r, "503 Service Unavailable")
                     /\ UNCHANGED <<resultsBucket, writes, uploaded_files, pending>>
    /\ UNCHANGED <<now, req, job_id, idAssigned, tmpdir, ckptBucket,
                   inputBucket, produced, result, runnerCalls>>
    /\ UNCHANGED <<cmd, captured, listings, lastQuery>>
    /\ UNCHANGED clientVars

\* return jsonify({'status': 'success', ...}), 200
ReturnSuccess(r) ==
    /\ pc[r] = "publishing"
    /\ pending[r] = {}
    /\ Leave(r, SuccessResponse(job_id[r], uploaded_files[r], captured[r].stdout),
             "succeeded")
    /\ UNCHANGED <<now, req, job_id, idAssigned, tmpdir, ckptBucket,
                   inputBucket, resultsBucket, pending, uploaded_files,
                   produced, result, runnerCalls, writes>>
    /\ UNCHANGED <<cmd, captured, listings, lastQuery>>
    /\ UNCHANGED clientVars

\* GET /list-checkpoints
ListCheckpoints(ok) ==
    /\ Len(listings) < MaxListings
    /\ listings' = Append(listings, ListCheckpointsResponse(ckptBucket, ok))
    /\ UNCHANGED <<now, pc, req, job_id, idAssigned, tmpdir, dirs, fs,
                   ckptBucket, inputBucket, resultsBucket, pending,
                   uploaded_files, produced, result, runnerCalls, writes,
                   outcome, responses, cmd, captured, lastQuery>>
    /\ UNCHANGED clientVars

\* GET /get-results/<job_id>
GetResults(job, ok) ==
    /\ lastQuery' = [job_id |-> job, storage_ok |-> ok,
                     response |-> GetResultsResponse(job, ok)]
    /\ UNCHANGED <<now, pc, req, job_id, idAssigned, tmpdir, dirs, fs,
                   ckptBucket, inputBucket, resultsBucket, pending,
                   uploaded_files, produced, result, runnerCalls, writes,
                   outcome, responses, cmd, captured, listings>>
    /\ UNCHANGED clientVars

(* ----------------------------- page actions ---------------------------- *)
\* useEffect(fetchCheckpoints, []) up to its first await
Mount ==
    /\ mounted = "rendered"
    /\ IF ~Truthy(apiUrl)
       THEN /\ mounted' = "settled"
            /\ UNCHANGED loadingCheckpoints
       ELSE /\ mounted' = "fetching"
            /\ loadingCheckpoints' = TRUE
    /\ UNCHANGED <<apiUrl, uploadedFiles, selectedCheckpoint,
                   availableCheckpoints, formParams, isRunning, progress,
                   results, error, nsubs, timers, awaiting, sent>>
    /\ UNCHANGED <<response, parsing>>
    /\ UNCHANGED serverVars

\* fetchCheckpoints from the settling of its fetch to await response.json(),
\* or through catch and finally when there is no body to read
FetchCheckpointsSettle(reply) ==
    /\ mounted = "fetching"
    /\ IF reply.settled = "resolved" /\ reply.ok
       THEN /\ mounted' = "parsing"
            /\ parsing' = parsing \cup {<<ListFetch, reply>>}
            /\ UNCHANGED loadingCheckpoints
       ELSE /\ mounted' = "settled"
            /\ loadingCheckpoints' = FALSE
            /\ UNCHANGED parsing
    /\ UNCHANGED <<apiUrl, uploadedFiles, selectedCheckpoint,
                   availableCheckpoints, formParams, isRunning, progress,
                   results, error, nsubs, timers, awaiting, sent>>
    /\ UNCHANGED response
    /\ UNCHANGED serverVars

\* fetchCheckpoints from the settling of response.json() to the end of finally
FetchCheckpointsJson ==
    /\ mounted = "parsing"
    /\ \E pair \in parsing :
         /\ pair[1] = ListFetch
         /\ parsing' = parsing \ {pair}
         /\ IF JsonThrows(pair[2])
            THEN UNCHANGED <<availableCheckpoints, selectedCheckpoint>>
            ELSE /\ availableCheckpoints' = pair[2].body.checkpoints
                 /\ selectedCheckpoint' =
                      IF Len(pair[2].body.checkpoints) > 0
                      THEN pair[2].body.checkpoints[1] ELSE selectedCheckpoint
    /\ mounted' = "settled"
    /\ loadingCheckpoints' = FALSE
    /\ UNCHANGED <<apiUrl, uploadedFiles, formParams, isRunning, progress,
                   results, error, nsubs, timers, awaiting, sent>>
    /\ UNCHANGED response
    /\ UNCHANGED serverVars

\* handleFileUpload(event, fileType) with event.target.files = files
handleFileUpload(files, fileType) ==
    /\ uploadedFiles' =
         IF Len(files) > 0 THEN [uploadedFiles EXCEPT ![fileType] = files[1]]
         ELSE uploadedFiles
    /\ UNCHANGED <<apiUrl, selectedCheckpoint, availableCheckpoints,
                   loadingCheckpoints, mounted, formParams, isRunning, progress,
                   results, error, nsubs, timers, awaiting, sent>>
    /\ UNCHANGED <<response, parsing>>
    /\ UNCHANGED serverVars

\* handleParamChange(field)(event)
handleParamChange(field, value) ==
    /\ formParams' = [formParams EXCEPT ![field] = value]
    /\ UNCHANGED <<apiUrl, uploadedFiles, selectedCheckpoint,
                   availableCheckpoints, loadingCheckpoints, mounted, isRunning,
                   progress, results, error, nsubs, timers, awaiting, sent>>
    /\ UNCHANGED <<response, parsing>>
    /\ UNCHANGED serverVars

\* onChange of the Select, which is disabled while loading or empty
SelectCheckpoint(value) ==
    /\ ~(loadingCheckpoints \/ Len(availableCheckpoints) = 0)
    /\ \E i \in 1..Len(availableCheckpoints) : availableCheckpoints[i] = value
    /\ selectedCheckpoint' = value
    /\ UNCHANGED <<apiUrl, uploadedFiles, availableCheckpoints,
                   loadingCheckpoints, mounted, formParams, isRunning, progress,
                   results, error, nsubs, timers, awaiting, sent>>
    /\ UNCHANGED <<response, parsing>>
    /\ UNCHANGED serverVars

\* handleRunComputation up to its first await: validation, reset, FormData,
\* setInterval, and fetch or the simulated wait
handleRunComputation ==
    LET invalid == ValidationError(uploadedFiles, selectedCheckpoint,
                                   availableCheckpoints)
        id == nsubs + 1
    IN  /\ IF Truthy(invalid)
           THEN /\ error' = invalid
                /\ UNCHANGED <<results, isRunning, progress, nsubs, timers,
                               awaiting, sent, response>>
           ELSE /\ nsubs < MaxSubs
                /\ error' = SubmissionReset.error
                /\ results' = SubmissionReset.results
                /\ isRunning' = SubmissionReset.isRunning
                /\ progress' = SubmissionReset.progress
                /\ nsubs' = id
                /\ response' = NoReply
                /\ timers' = timers \cup {id}
                /\ awaiting' = awaiting \cup {id}
                /\ sent' = IF Truthy(apiUrl)
                           THEN sent \cup {<<id, FormData(uploadedFiles,
                                                selectedCheckpoint, formParams)>>}
                           ELSE sent
        /\ UNCHANGED <<apiUrl, uploadedFiles, selectedCheckpoint,
                       availableCheckpoints, loadingCheckpoints, mounted,
                       formParams>>
        /\ UNCHANGED parsing
        /\ UNCHANGED serverVars

\* a click on the Run Computation button
ClickRun ==
    /\ ~RunDisabled
    /\ handleRunComputation

\* one firing of the interval of submission id
TimerTick(id) ==
    /\ id \in timers
    /\ progress' = TickProgress(progress)
    /\ timers' = IF progress >= 90 THEN timers \ {id} ELSE timers
    /\ UNCHANGED <<apiUrl, uploadedFiles, selectedCheckpoint,
                   availableCheckpoints, loadingCheckpoints, mounted, formParams,
                   isRunning, results, error, nsubs, awaiting, sent>>
    /\ UNCHANGED <<response, parsing>>
    /\ UNCHANGED serverVars

\* handleRunComputation of submission id from the settling of its fetch to
\* await response.json(), or through catch when the fetch rejected or the
\* response is not OK
RunSettle(id, reply) ==
    /\ Truthy(apiUrl)
    /\ id \in awaiting
    /\ id \notin ParsingIds
    /\ response' = reply
    /\ IF Throws(reply)
       THEN /\ awaiting' = awaiting \ {id}
            /\ error' = FailureMessage(reply)
            /\ isRunning' = FALSE
            /\ progress' = 0
            /\ UNCHANGED parsing
       ELSE /\ parsing' = parsing \cup {<<id, reply>>}
            /\ UNCHANGED <<awaiting, error, isRunning, progress>>
    /\ sent' = {request \in sent : request[1] # id}
    /\ UNCHANGED <<apiUrl, uploadedFiles, selectedCheckpoint,
                   availableCheckpoints, loadingCheckpoints, mounted, formParams,
                   results, timers, nsubs>>
    /\ UNCHANGED serverVars

\* handleRunComputation of submission id from the settling of
\* response.json() on
RunJson(id) ==
    /\ id \in awaiting
    /\ \E pair \in parsing :
         /\ pair[1] = id
         /\ parsing' = parsing \ {pair}
         /\ IF JsonThrows(pair[2])
            THEN /\ error' = FailureMessage(pair[2])
                 /\ isRunning' = FALSE
                 /\ progress' = 0
                 /\ UNCHANGED <<results, timers>>
            ELSE /\ timers' = timers \ {id}
                 /\ progress' = 100
                 /\ results' = ResultMessage(pair[2].body)
                 /\ isRunning' = FALSE
                 /\ UNCHANGED error
    /\ awaiting' = awaiting \ {id}
    /\ UNCHANGED <<apiUrl, uploadedFiles, selectedCheckpoint,
                   availableCheckpoints, loadingCheckpoints, mounted, formParams,
                   nsubs, sent>>
    /\ UNCHANGED response
    /\ UNCHANGED serverVars

\* handleRunComputation of submission id after the simulated wait
SimulatedDone(id) ==
    /\ ~Truthy(apiUrl)
    /\ id \in awaiting
    /\ awaiting' = awaiting \ {id}
    /\ timers' = timers \ {id}
    /\ progress' = 100
    /\ results' = SimulatedMessage
    /\ isRunning' = FALSE
    /\ UNCHANGED <<apiUrl, uploadedFiles, selectedCheckpoint,
                   availableCheckpoints, loadingCheckpoints, mounted, formParams,
                   error, nsubs, sent>>
    /\ UNCHANGED <<response, parsing>>
    /\ UNCHANGED serverVars

Next ==
    \/ Tick
    \/ \E r \in Reqs, form \in Submissions : Submit(r, form)
    \/ \E r \in Reqs : StageFiles(r)
    \/ \E r \in Reqs : ResolveCheckpoint(r)
    \/ \E r \in Reqs : Extract(r)
    \/ \E r \in Reqs, ok \in BOOLEAN : UploadInput(r, ok)
    \/ \E r \in Reqs, launched \in BOOLEAN : StartRunner(r, launched)
    \/ \E r \in Reqs, kind \in ExitKinds :
         \E outs \in OutputsOf(kind) :
            RunnerExit(r, kind, outs, "Refinement done", "Traceback: RuntimeError")
    \/ \E r \in Reqs, ok \in BOOLEAN : UploadResult(r, ok)
    \/ \E r \in Reqs : ReturnSuccess(r)

Spec == Init /\ [][Next]_vars

\* one submission with every form and stream, and the two listing endpoints
NextSingle ==
    \/ \E form \in SingleForms : Submit(1, form)
    \/ StageFiles(1)
    \/ ResolveCheckpoint(1)
    \/ Extract(1)
    \/ \E ok \in BOOLEAN : UploadInput(1, ok)
    \/ \E launched \in BOOLEAN : StartRunner(1, launched)
    \/ \E kind \in ExitKinds, text \in Streams :
         \E outs \in OutputsOf(kind) : RunnerExit(1, kind, outs, text, text)
    \/ \E ok \in BOOLEAN : UploadResult(1, ok)
    \/ ReturnSuccess(1)
    \/ \E ok \in BOOLEAN : ListCheckpoints(ok)
    \/ \E job \in QueryIds, ok \in BOOLEAN : GetResults(job, ok)

SpecSingle == InitSingle /\ [][NextSingle]_vars

\* the page driven through its controls
NextClient ==
    \/ Mount
    \/ \E reply \in CheckpointReplies : FetchCheckpointsSettle(reply)
    \/ FetchCheckpointsJson
    \/ \E fileType \in DOMAIN FileChoices :
         \E files \in FileChoices[fileType] : handleFileUpload(files, fileType)
    \/ \E edit \in ParamEdits : handleParamChange(edit[1], edit[2])
    \/ \E value \in {"model_v1.ckpt", "default.ckpt"} : SelectCheckpoint(value)
    \/ ClickRun
    \/ \E id \in SubIds : TimerTick(id)
    \/ \E id \in SubIds, reply \in RunReplies : RunSettle(id, reply)
    \/ \E id \in SubIds : RunJson(id)
    \/ \E id \in SubIds : SimulatedDone(id)

SpecClient == InitClient /\ [][NextClient]_vars

\* every pending fetch and response.json() settles and the simulated wait ends
FairClient ==
    \A id \in SubIds :
        /\ WF_vars(\E reply \in RunReplies : RunSettle(id, reply))
        /\ WF_vars(RunJson(id))
        /\ WF_vars(SimulatedDone(id))

SpecClientLive == SpecClient /\ FairClient

\* the page with handleRunComputation invoked in any state, the parameter
\* fields left at their defaults, against the replies of the service
NextHandler ==
    \/ Mount
    \/ \E reply \in CheckpointReplies : FetchCheckpointsSettle(reply)
    \/ FetchCheckpointsJson
    \/ \E fileType \in DOMAIN FileChoices :
         \E files \in FileChoices[fileType] : handleFileUpload(files, fileType)
    \/ \E value \in {"model_v1.ckpt", "default.ckpt"} : SelectCheckpoint(value)
    \/ handleRunComputation
    \/ \E id \in SubIds : TimerTick(id)
    \/ \E id \in SubIds, reply \in ServiceReplies : RunSettle(id, reply)
    \/ \E id \in SubIds : RunJson(id)
    \/ \E id \in SubIds : SimulatedDone(id)

SpecHandler == InitClient /\ [][NextHandler]_vars

TypeOK ==
    /\ now \in Times
    /\ \A r \in Reqs : pc[r] \in {"idle", "received", "staged",
          "checkpoint_resolved", "extracted", "ready", "running",
          "publishing", "done", "fault"}

(* ------------------------- derived notions ----------------------------- *)
\* the names request r wrote to bucket b
WrittenTo(r, b) ==
    {writes[r][i].name : i \in {j \in 1..Len(writes[r]) : writes[r][j].bucket = b}}

\* request r has returned its response
Returned(r) == pc[r] = "done"

MissingUpload(r) ==
    pc[r] # "idle" /\ (req[r].data_dir = None \/ req[r].test_csv_file = None)

ErrorResponded(r) ==
    /\ Len(responses[r]) = 1
    /\ responses[r][1].status = "error"

\* the status of the submission in the terms of the job state machine
Status(r) ==
    CASE pc[r] = "idle" -> "none"
      [] pc[r] = "received" -> "received"
      [] pc[r] = "staged" -> "staged"
      [] pc[r] \in {"checkpoint_resolved", "extracted", "ready"} -> "checkpoint_resolved"
      [] pc[r] \in {"running", "publishing"} -> "running"
      [] pc[r] = "done" /\ outcome[r] = "succeeded" -> "succeeded"
      [] pc[r] = "done" /\ outcome[r] = "timed_out" -> "timed_out"
      [] pc[r] = "done" /\ outcome[r] \in {"failed", "error"} -> "failed"
      [] OTHER -> "fault"

(* ------------------------------ claims --------------------------------- *)

\* C1: for every submission whose executable exited non-zero or timed out,
\* get_results of that submission's job id lists nothing, in every reachable
\* state of result storage (other submissions included).
C1_FailedRunListsNothing ==
    \A r \in Reqs :
        result[r] \in {"exit1", "timeout"} => get_results(job_id[r]) = {}

\* C2: a request writes to the results bucket only after its own executable
\* has exited with code zero; on the non-zero and the timeout path it
\* uploads nothing there.
C2_PublishOnlyAfterExitZero ==
    \A r \in Reqs :
        /\ WrittenTo(r, "metfish-results") # {} => result[r] = "exit0"
        /\ result[r] \in {"exit1", "timeout"} =>
              \A i \in 1..Len(writes[r]) : writes[r][i].bucket # "metfish-results"

\* a run that failed and one that timed out, both with partial output left
\* in their output directory, have returned
C2_Witness ==
    \E r, q \in Reqs :
        /\ Returned(r) /\ result[r] = "exit1" /\ produced[r] # {}
        /\ Returned(q) /\ result[q] = "timeout" /\ produced[q] # {}

\* C3: any two different submissions have different job ids.
C3_JobIdsDistinct ==
    \A r, q \in Reqs :
        (r # q /\ pc[r] # "idle" /\ pc[q] # "idle") => job_id[r] # job_id[q]

\* C4: a submission in which the data archive or the CSV manifest is missing
\* stops at the staging step with an error response; subprocess.run is never
\* called for it and it writes nothing to the results bucket.
C4_MissingUploadRejected ==
    \A r \in Reqs :
        MissingUpload(r) =>
            /\ pc[r] \in {"received", "done"}
            /\ Returned(r) => ErrorResponded(r)
            /\ runnerCalls[r] = 0
            /\ WrittenTo(r, "metfish-results") = {}

\* one request without the archive and one without the manifest have returned
C4_Witness ==
    \E r, q \in Reqs :
        /\ Returned(r) /\ req[r].data_dir = None /\ req[r].test_csv_file # None
        /\ Returned(q) /\ req[q].data_dir # None /\ req[q].test_csv_file = None

\* C5: a submission whose checkpoint_file names no object of the checkpoint
\* bucket gets an error response and subprocess.run is never called for it.
C5_MissingCheckpointRejected ==
    \A r \in Reqs :
        (pc[r] # "idle" /\ req[r].checkpoint_file \notin ckptBucket) =>
            /\ pc[r] \in {"received", "staged", "done"}
            /\ Returned(r) => ErrorResponded(r)
            /\ runnerCalls[r] = 0

\* a request with both uploads and an unknown checkpoint was answered with
\* the storage client's not-found error
C5_Witness ==
    \E r \in Reqs :
        /\ Returned(r)
        /\ ~MissingUpload(r)
        /\ req[r].checkpoint_file = "missing.ckpt"
        /\ responses[r][1].message = "404 No such object"

\* C6: in a success response the results list has exactly one entry per file
\* the executable left under the output directory, each equal to
\* gs://metfish-results/{job_id}/{relative path}, and nothing else.
C6_ResultsListExact ==
    \A r \in Reqs :
        outcome[r] = "succeeded" =>
            LET res == responses[r][1].results
            IN  /\ Len(res) = Cardinality(produced[r])
                /\ {res[i] : i \in 1..Len(res)} =
                      {"gs://metfish-results/" \o job_id[r] \o "/" \o f : f \in produced[r]}
                /\ \A i, j \in 1..Len(res) : res[i] = res[j] => i = j

\* a successful run that produced a top-level and a nested file
C6_Witness ==
    \E r \in Reqs :
        /\ outcome[r] = "succeeded"
        /\ produced[r] = {"out.pdb", "ckpt/step_25.pt"}

\* C7: once the handler has returned, its staging directory and every file
\* below it are gone, whatever the outcome.
C7_StagingRemoved ==
    \A r \in Reqs :
        pc[r] \in {"done", "fault"} =>
            /\ tmpdir[r] \notin dirs
            /\ \A p \in fs : ~StartsWith(p, tmpdir[r] \o "/")

\* a successful run and a timed-out run with output files have both returned
C7_Witness ==
    \E r, q \in Reqs :
        /\ Returned(r) /\ outcome[r] = "succeeded" /\ produced[r] # {}
        /\ Returned(q) /\ outcome[q] = "timed_out" /\ produced[q] # {}

\* C8: every invocation ends with exactly one response whose status is
\* success or error; nothing escapes the handler as an unhandled fault.
C8_OneStructuredResponse ==
    \A r \in Reqs :
        /\ pc[r] # "fault"
        /\ outcome[r] # "fault"
        /\ Returned(r) =>
              /\ Len(responses[r]) = 1
              /\ responses[r][1].status \in {"success", "error"}
        /\ ~Returned(r) => responses[r] = <<>>

\* a storage error and a launch failure have both been answered
C8_Witness ==
    \E r, q \in Reqs :
        /\ Returned(r) /\ responses[r][1].message = "503 Service Unavailable"
        /\ Returned(q) /\ runnerCalls[q] = 1 /\ result[q] = "none"

\* C9: the job id is assigned exactly once per submission, before the
\* submission writes anything, and every object it writes to the input or
\* the results bucket has a name that begins with job_id followed by "/".
C9_IdOnceAndPrefix ==
    \A r \in Reqs :
        /\ idAssigned[r] = IF pc[r] = "idle" THEN 0 ELSE 1
        /\ \A i \in 1..Len(writes[r]) :
              /\ idAssigned[r] = 1
              /\ writes[r][i].bucket \in {"metfish-input", "metfish-results"}
              /\ StartsWith(writes[r][i].name, job_id[r] \o "/")

\* a request that wrote its manifest and two result objects
C9_Witness ==
    \E r \in Reqs :
        /\ Cardinality(WrittenTo(r, "metfish-input")) = 1
        /\ Cardinality(WrittenTo(r, "metfish-results")) = 2

\* one step of the job state machine (failure exits from every stage)
StatusStep(a, b) ==
    \/ a = b
    \/ a = "none" /\ b = "received"
    \/ a = "received" /\ b \in {"staged", "failed"}
    \/ a = "staged" /\ b \in {"checkpoint_resolved", "failed"}
    \/ a = "checkpoint_resolved" /\ b \in {"running", "failed"}
    \/ a = "running" /\ b \in {"succeeded", "failed", "timed_out"}

\* C10: the status moves only forward along received, staged, checkpoint
\* resolved, running, terminal (failing out of any stage); subprocess.run
\* is called only with both uploads and the checkpoint staged, at most once
\* per submission, and a terminal status never changes.
C10_StatusOrder ==
    [][\A r \in Reqs :
          /\ StatusStep(Status(r), Status(r)')
          /\ runnerCalls'[r] # runnerCalls[r] =>
                /\ runnerCalls[r] = 0
                /\ {data_zip(r), csv_path(r), checkpoint_path(r)} \subseteq fs
          /\ Status(r) = "running" => runnerCalls[r] = 1]_vars

\* one submission succeeded and another timed out
C10_Witness ==
    \E r, q \in Reqs : Status(r) = "succeeded" /\ Status(q) = "timed_out"

\* sub occurs in s
Contains(s, sub) ==
    \E i \in 1..(Len(s) - Len(sub) + 1) : SubSeq(s, i, i + Len(sub) - 1) = sub

\* request r is between arrival and response
InFlight(r) == pc[r] \notin {"idle", "done", "fault"}

\* C11: whenever subprocess.run has been called for a job, the object
\* {job_id}/test.csv is in the input bucket, and it stays there whether the
\* run then succeeds, exits non-zero or times out.
C11_ManifestRecordedBeforeRun ==
    \A r \in Reqs :
        runnerCalls[r] > 0 =>
            /\ (job_id[r] \o "/test.csv") \in inputBucket
            /\ writes[r][1] = [bucket |-> "metfish-input",
                               name |-> job_id[r] \o "/test.csv"]

\* a run that timed out and one that exited non-zero have returned, and
\* their manifests are in the input bucket
C11_Witness ==
    \E r, q \in Reqs :
        /\ Returned(r) /\ result[r] = "timeout"
        /\ Returned(q) /\ result[q] = "exit1"
        /\ inputBucket # {}

\* C12: a run that exceeds the time limit is answered with an error whose
\* message differs from the message of every answer to a non-zero exit, and
\* never with a success.
C12_TimeoutDistinct ==
    \A r \in Reqs :
        (Returned(r) /\ result[r] = "timeout") =>
            /\ responses[r][1].status = "error"
            /\ outcome[r] = "timed_out"
            /\ responses[r][1].message # "Computation failed"
            /\ \A q \in Reqs :
                  (Returned(q) /\ result[q] = "exit1") =>
                      responses[q][1].message # responses[r][1].message

\* a timed-out run and a failed run have both been answered
C12_Witness ==
    \E r, q \in Reqs :
        /\ Returned(r) /\ result[r] = "timeout" /\ Len(responses[r]) = 1
        /\ Returned(q) /\ result[q] = "exit1" /\ Len(responses[q]) = 1

\* C13 (as stated): after a non-zero exit the response's message contains
\* the captured stderr tail and the response has no results list.
C13_MessageHasStderrTail ==
    \A r \in Reqs :
        (Returned(r) /\ result[r] = "exit1") =>
            /\ Contains(responses[r][1].message, Last1000(captured[r].stderr))
            /\ "results" \notin DOMAIN responses[r][1]

\* C13 (amended): after a non-zero exit the response is an error whose
\* "error" field is the captured stderr tail, whose message is the fixed
\* text "Computation failed", and which has no results list.
C13_ErrorFieldHasStderrTail ==
    \A r \in Reqs :
        (Returned(r) /\ result[r] = "exit1") =>
            LET resp == responses[r][1]
                err == captured[r].stderr
            IN  /\ resp.status = "error"
                /\ resp.message = "Computation failed"
                /\ "error" \in DOMAIN resp
                /\ resp.error = SubSeq(err, Len(err) - Len(resp.error) + 1, Len(err))
                /\ Len(resp.error) = IF Len(err) < 1000 THEN Len(err) ELSE 1000
                /\ "results" \notin DOMAIN resp

\* a run that wrote to stderr and exited non-zero has been answered
C13_Witness ==
    \E r \in Reqs :
        /\ Returned(r) /\ result[r] = "exit1"
        /\ captured[r].stderr # ""

\* C14: subprocess.run is called at most once per submission; once the run
\* has ended or the request has failed the request only publishes or
\* returns, and a returned request leaves nothing staged to resume from.
C14_AtMostOneRun ==
    \A r \in Reqs :
        /\ runnerCalls[r] <= 1
        /\ (result[r] # "none" \/ outcome[r] # "none") =>
              pc[r] \in {"publishing", "done"}
        /\ Returned(r) =>
              /\ pending[r] = {} \/ outcome[r] = "error"
              /\ \A p \in fs : ~StartsWith(p, tmpdir[r] \o "/")

\* a failed run, a timed-out run: each called the executable once
C14_Witness ==
    \E r, q \in Reqs :
        /\ Returned(r) /\ outcome[r] = "failed" /\ runnerCalls[r] = 1
        /\ Returned(q) /\ outcome[q] = "timed_out" /\ runnerCalls[q] = 1

\* the files request r has put into its staging directory so far
StagedBy(r) ==
    LET d == tmpdir[r]
        uploads == {d \o "/data.zip", d \o "/test.csv"}
        ckpt == {d \o "/checkpoint.ckpt"}
        data == {d \o "/data/input.pdb"}
    IN  CASE pc[r] = "received" -> {}
          [] pc[r] = "staged" -> uploads
          [] pc[r] = "checkpoint_resolved" -> uploads \cup ckpt
          [] pc[r] \in {"extracted", "ready", "running"} -> uploads \cup ckpt \cup data
          [] pc[r] = "publishing" ->
                uploads \cup ckpt \cup data \cup {d \o "/output/" \o f : f \in produced[r]}
          [] OTHER -> {}

\* C15: submissions in flight have different staging directories, each
\* directory holds exactly what its own submission staged (nothing of it is
\* overwritten or removed by another submission or by another's cleanup).
C15_StagingIsolated ==
    \A r \in Reqs :
        InFlight(r) =>
            /\ tmpdir[r] \in dirs
            /\ {p \in fs : StartsWith(p, tmpdir[r] \o "/")} = StagedBy(r)
            /\ \A q \in Reqs : (q # r /\ InFlight(q)) => tmpdir[q] # tmpdir[r]

\* one submission has returned (its directory removed) while another is
\* still running with its files staged
C15_Witness ==
    \E r, q \in Reqs :
        /\ Returned(r) /\ runnerCalls[r] = 1
        /\ pc[q] = "running"
        /\ tmpdir[r] # tmpdir[q]

\* C17: a submission whose archive cannot be decompressed is answered with an
\* error; subprocess.run is never called for it and it writes nothing to the
\* results bucket.
C17_BadArchiveRejected ==
    \A r \in Reqs :
        (pc[r] # "idle" /\ req[r].data_dir = "badzip") =>
            /\ pc[r] \in {"received", "staged", "checkpoint_resolved", "done"}
            /\ Returned(r) => ErrorResponded(r)
            /\ runnerCalls[r] = 0
            /\ cmd[r] = <<>>
            /\ WrittenTo(r, "metfish-results") = {}

\* a request with a corrupt archive got the zipfile error
C17_Witness ==
    \E r \in Reqs :
        /\ Returned(r) /\ req[r].data_dir = "badzip"
        /\ responses[r][1].message = "File is not a zip file"

\* C16: the argument list handed to the executable is determined by the staging
\* paths and the form's parameters alone: the interpreter and the script, then
\* the flags --data_dir, --output_dir, --ckpt_path, --test_csv_name,
\* --saxs_ext, --num_iterations, --learning_rate, --sequence_index,
\* --save_frequency in this order, each followed by its value, and then
\* --random_init as the last argument exactly when the random_init field is
\* the string 'true' or is not sent.
C16_FlagOrder ==
    <<"--data_dir", "--output_dir", "--ckpt_path", "--test_csv_name",
      "--saxs_ext", "--num_iterations", "--learning_rate", "--sequence_index",
      "--save_frequency">>

C16_FieldOr(form, key, default) == IF form[key] = Absent THEN default ELSE form[key]

C16_CommandLine ==
    \A r \in Reqs :
        cmd[r] # <<>> =>
            LET c == cmd[r]
                f == req[r]
                wanted == f.random_init \in {Absent, "true"}
                values == <<tmpdir[r] \o "/data", tmpdir[r] \o "/output",
                            tmpdir[r] \o "/checkpoint.ckpt",
                            tmpdir[r] \o "/test.csv",
                            C16_FieldOr(f, "saxs_ext", "_atom_only.csv"),
                            C16_FieldOr(f, "num_iterations", "500"),
                            C16_FieldOr(f, "learning_rate", "1e-3"),
                            C16_FieldOr(f, "sequence_index", "0"),
                            C16_FieldOr(f, "save_frequency", "25")>>
            IN  /\ Len(c) = IF wanted THEN 21 ELSE 20
                /\ c[1] = "python3"
                /\ \A i \in 1..9 : c[2 * i + 1] = C16_FlagOrder[i]
                                   /\ c[2 * i + 2] = values[i]
                /\ wanted <=> c[Len(c)] = "--random_init"
                /\ \A i \in 1..20 : c[i] # "--random_init"

\* a command was built for a form whose random_init is a string other than
\* 'true', and it does not carry the flag
C16_Witness ==
    \E r \in Reqs :
        /\ runnerCalls[r] = 1
        /\ req[r].random_init = "True"
        /\ req[r].learning_rate = "5e-4"
        /\ Len(cmd[r]) = 20

\* C18: every successful answer of list_checkpoints holds exactly the names
\* of the objects of the checkpoint bucket that end with '.ckpt', so two
\* successful answers over the same bucket contents hold the same names.
C18_IsCkptName(n) == Len(n) >= 5 /\ SubSeq(n, Len(n) - 4, Len(n)) = ".ckpt"

C18_ListingExact ==
    /\ \A i \in 1..Len(listings) :
           listings[i].status = "success" =>
               /\ listings[i].checkpoints = {n \in ckptBucket : C18_IsCkptName(n)}
               /\ listings[i].code = 200
    /\ \A i, j \in 1..Len(listings) :
           listings[i].status = "success" /\ listings[j].status = "success"
               => listings[i].checkpoints = listings[j].checkpoints

\* two successful listings of a bucket that holds a name with '.ckpt' in the
\* middle and names that end with it
C18_Witness ==
    /\ Len(listings) >= 2
    /\ listings[1].status = "success" /\ listings[2].status = "success"
    /\ "old.ckpt.bak" \in ckptBucket
    /\ listings[2].checkpoints = {"model_v1.ckpt", "default.ckpt"}

\* C19: a call of get_results never changes a bucket, and when the storage
\* service answers the listing and no object of the results bucket has the
\* job id as a prefix of its name, the response is a success (200) with an
\* empty results list.
C19_EmptyListingStep ==
    lastQuery' # lastQuery =>
        /\ UNCHANGED <<ckptBucket, inputBucket, resultsBucket>>
        /\ (/\ lastQuery'.storage_ok
            /\ \A n \in resultsBucket : ~StartsWith(n, lastQuery'.job_id))
           => /\ lastQuery'.response.status = "success"
              /\ lastQuery'.response.code = 200
              /\ lastQuery'.response.results = {}

C19_EmptyListingIsSuccess == [][C19_EmptyListingStep]_vars

\* a job id without objects was asked for while the results bucket held the
\* objects of another job
C19_Witness ==
    /\ lastQuery.job_id = "job_9_9"
    /\ lastQuery.response.status = "success"
    /\ lastQuery.response.results = {}
    /\ resultsBucket # {}

\* C20: the output field of a success response is the suffix of the captured
\* standard output of length min(1000, Len(stdout)), and the error field of
\* the response to a non-zero exit is the suffix of the captured standard
\* error of length min(1000, Len(stderr)).
C20_Min(a, b) == IF a < b THEN a ELSE b

C20_IsBoundedTail(tail, stream) ==
    /\ Len(tail) = C20_Min(1000, Len(stream))
    /\ tail = SubSeq(stream, Len(stream) - Len(tail) + 1, Len(stream))

C20_TailBound ==
    \A r \in Reqs :
        Returned(r) =>
            /\ outcome[r] = "succeeded" =>
                   C20_IsBoundedTail(responses[r][1].output, captured[r].stdout)
            /\ outcome[r] = "failed" =>
                   C20_IsBoundedTail(responses[r][1].error, captured[r].stderr)

\* a success response whose output lost the first character of a standard
\* output of 1001 characters
C20_Witness ==
    \E r \in Reqs :
        /\ Returned(r) /\ outcome[r] = "succeeded"
        /\ Len(captured[r].stdout) = 1001
        /\ Len(responses[r][1].output) = 1000
        /\ SubSeq(responses[r][1].output, 1, 1) = "1"

\* C23: whenever a submission has been answered with an error response, the
\* results bucket holds no object under that job's id prefix "{job_id}/"
\* (publication is all-or-nothing, also when an upload fails after exit 0).
C23_AllOrNothing ==
    \A r \in Reqs :
        (Returned(r) /\ ErrorResponded(r)) =>
            \A n \in resultsBucket : ~StartsWith(n, job_id[r] \o "/")

\* C24: get_results of a submission's job id returns only locations of
\* objects that were published by a submission with exactly that job id.
C24_PublishedUnder(job) ==
    UNION {WrittenTo(r, RESULTS_BUCKET) :
             r \in {x \in Reqs : pc[x] # "idle" /\ job_id[x] = job}}

C24_ListingScopedToJob ==
    \A r \in Reqs :
        pc[r] # "idle" =>
            get_results(job_id[r]) \subseteq
                {GcsPath(RESULTS_BUCKET, n) : n \in C24_PublishedUnder(job_id[r])}

\* C29: a submission writes to no bucket before its checkpoint has been
\* downloaded and its archive extracted; one that fails for a missing upload,
\* a missing checkpoint or a corrupt archive is answered with an error and
\* has written nothing to the input bucket or to the results bucket.
C29_FailsEarly(r) ==
    \/ MissingUpload(r)
    \/ ~BlobExists(ckptBucket, CheckpointName(req[r]))
    \/ req[r].data_dir = "badzip"

C29_NoWriteBeforeExtraction ==
    \A r \in Reqs :
        /\ pc[r] \in {"idle", "received", "staged", "checkpoint_resolved"}
              => writes[r] = <<>>
        /\ (Returned(r) /\ C29_FailsEarly(r)) =>
              /\ ErrorResponded(r)
              /\ writes[r] = <<>>
              /\ WrittenTo(r, INPUT_BUCKET) = {} /\ WrittenTo(r, RESULTS_BUCKET) = {}

\* a submission naming a checkpoint that is not in the bucket was rejected
\* without a write while another submission had recorded its manifest
C29_Witness ==
    \E r \in Reqs :
        /\ Returned(r) /\ req[r].checkpoint_file = "missing.ckpt"
        /\ writes[r] = <<>>
        /\ inputBucket # {}

(* ------------------------- claims about the page ----------------------- *)
\* C21: the step of the page that starts a validated submission leaves error
\* and results null, progress 0 and isRunning true, and it is the step that
\* sends the request; and while a submission is in flight neither an error
\* nor a result is on display.
C21_ResetStep ==
    nsubs' # nsubs =>
        /\ error' = Null /\ results' = Null
        /\ progress' = 0 /\ isRunning'
        /\ awaiting' = awaiting \cup {nsubs'}
        /\ Truthy(apiUrl) =>
              \E form \in {request[2] : request \in sent'} :
                  sent' = sent \cup {<<nsubs', form>>} /\ <<nsubs', form>> \notin sent

C21_NothingShownInFlight ==
    awaiting # {} => error = Null /\ results = Null

C21_ResetOnSubmission ==
    [][C21_ResetStep]_vars /\ []C21_NothingShownInFlight

\* the second submission is in flight after the first one ended in an error
\* (its interval is still registered), and the page shows no outcome
C21_Witness ==
    /\ nsubs = 2 /\ awaiting = {2} /\ 1 \in timers
    /\ error = Null /\ results = Null /\ isRunning

\* C22: while the data archive or the CSV file is not selected, or checkpoints
\* are listed and none is selected, no step of the page sends a request,
\* starts a submission or registers a timer, and a call of
\* handleRunComputation sets the error message and leaves isRunning, progress
\* and results as they were.
C22_Invalid ==
    \/ uploadedFiles.dataDir = Null
    \/ uploadedFiles.testCsvFile = Null
    \/ (selectedCheckpoint = "" /\ Len(availableCheckpoints) > 0)

C22_RejectStep ==
    C22_Invalid =>
        /\ nsubs' = nsubs /\ sent' = sent
        /\ timers' \subseteq timers /\ awaiting' \subseteq awaiting
        /\ error' # error =>
              /\ error' \in {"Please upload all required files before running computation.",
                             "Please select a checkpoint."}
              /\ UNCHANGED <<isRunning, progress, results>>

C22_InvalidCallOnlySetsError == [][C22_RejectStep]_vars

\* the handler was called with the archive chosen and the CSV file missing
C22_Witness ==
    /\ error = "Please upload all required files before running computation."
    /\ uploadedFiles.dataDir = "data.zip" /\ uploadedFiles.testCsvFile = Null
    /\ nsubs = 0 /\ sent = {} /\ timers = {} /\ ~isRunning

\* C25: after a submission has ended in error and before the next one starts,
\* no interval timer is registered and progress is 0.
C25_TimerStoppedAfterError ==
    (~isRunning /\ error # Null /\ StartsWith(error, "Failed to run computation"))
        => timers = {} /\ progress = 0

\* C26: progress is one of 0, 10, ..., 100; a step that changes progress
\* without starting or ending a submission (a timer tick) leaves it at most
\* 90; and progress is 100 only when results is set and nothing is running.
C26_Range ==
    /\ progress \in {10 * k : k \in 0..10}
    /\ progress = 100 => results # Null /\ ~isRunning

C26_TickStep ==
    (progress' # progress /\ nsubs' = nsubs /\ awaiting' = awaiting)
        => progress' <= 90 /\ progress' = progress + 10

C26_ProgressBounded == []C26_Range /\ [][C26_TickStep]_vars

\* a timer has counted up to 90 while its submission is in flight
C26_Witness ==
    /\ progress = 90 /\ isRunning /\ awaiting # {} /\ timers = {}

\* C27: at most one submission is in flight; isRunning is true exactly while
\* one is; and a submission starts only from a state where isRunning is
\* false and both files are selected.
C27_Range ==
    /\ Cardinality(awaiting) <= 1
    /\ isRunning <=> awaiting # {}

C27_StartStep ==
    nsubs' # nsubs =>
        /\ ~isRunning
        /\ uploadedFiles.dataDir # Null /\ uploadedFiles.testCsvFile # Null

C27_OneInFlight == []C27_Range /\ [][C27_StartStep]_vars

\* a second submission is in flight, with edited parameters
C27_Witness ==
    /\ isRunning /\ awaiting = {2}
    /\ \E request \in sent :
         /\ request[1] = 2
         /\ request[2].sequence_index = "10" /\ request[2].random_init = "false"

\* C28: error and results are never both set.
C28_ErrorXorResults == ~(error # Null /\ results # Null)

\* a submission succeeded after an earlier one had failed
C28_Witness ==
    /\ results # Null /\ error = Null
    /\ nsubs = 2 /\ 1 \in timers /\ ~isRunning

\* C30: with every request settling, a submission in flight leads to a state
\* where it has ended, isRunning is false and exactly one of results and
\* error is set; and after a reply that was rejected or not OK, results is
\* null and error is set.
C30_Ended(id) ==
    /\ id \notin awaiting /\ ~isRunning
    /\ (results = Null) # (error = Null)

C30_FailureSetsNoResults ==
    (response # NoReply /\ (response.settled = "rejected" \/ ~response.ok))
        => results = Null /\ error # Null

C30_SubmissionEnds ==
    /\ \A id \in SubIds : (id \in awaiting) ~> C30_Ended(id)
    /\ []C30_FailureSetsNoResults

\* a 500 reply was received and shown as an error
C30_Witness ==
    /\ response.settled = "resolved" /\ ~response.ok
    /\ error = "Failed to run computation: API request failed"
    /\ results = Null /\ ~isRunning

====
